---- MODULE Spec2Model ----
(***************************************************************************)
(* The serde codec of nft-metadata (src/lib.rs): Metadata, AttributeEntry, *)
(* DisplayType and the rgb8_fromhex_opt field codec, over JSON values.     *)
(*                                                                         *)
(* A JSON value is a record tagged by t: "null", "bool", "str" (s: the     *)
(* sequence of its characters), "num" (the number token: sign, integer     *)
(* digits, and whether a fraction or exponent follows), "arr" (a: a        *)
(* sequence of values) and "obj" (o: a function from its keys to values;   *)
(* an object with a repeated key is not represented).                      *)
(* Option<T> is a sequence of length 0 (None) or 1 (Some).                 *)
(* Result<T, E> is [ok |-> TRUE, v |-> value] or [ok |-> FALSE, e |-> why].*)
(***************************************************************************)
EXTENDS Integers, Sequences, FiniteSets, TLC

VARIABLES
    wire,       \* the JSON value handed to serde_json::from_value / from_str
    value,      \* Option<Metadata>: the value the caller holds
    decoded,    \* Option<Result<Metadata>>: what decoding wire returned
    encoded,    \* Option<JSON>: what encoding value returned
    redecoded,  \* Option<Result<Metadata>>: what decoding encoded returned
    pc          \* "wire" | "value" | "decoded" | "encoded" | "redecoded"

vars == <<wire, value, decoded, encoded, redecoded, pc>>

------------------------------------------------------------------------------
(* Bounds of the model *)

\* longest background_color string enumerated, in characters
MaxHexLen == 6
\* longest attributes sequence enumerated
MaxAttrs == 2

------------------------------------------------------------------------------
(* Values *)

None == <<>>
Some(x) == <<x>>
IsSome(opt) == Len(opt) = 1
Unwrap(opt) == opt[1]

Ok(v) == [ok |-> TRUE, v |-> v]
Err(e) == [ok |-> FALSE, e |-> e]

JNull == [t |-> "null"]
JBool(b) == [t |-> "bool", b |-> b]
JStr(s) == [t |-> "str", s |-> s]
JNum(neg, digits, frac) == [t |-> "num", neg |-> neg, digits |-> digits, frac |-> frac]
JArr(a) == [t |-> "arr", a |-> a]
JObj(o) == [t |-> "obj", o |-> o]

Has(o, k) == k \in DOMAIN o

\* stands for "no value": a key left out of an object
Absent == [t |-> "absent"]

\* all sequences over S of length at most n
RECURSIVE SeqsUpTo(_, _)
SeqsUpTo(S, n) ==
    IF n = 0 THEN {<<>>}
    ELSE LET shorter == SeqsUpTo(S, n - 1)
         IN  shorter \cup {Append(s, x) : s \in {q \in shorter : Len(q) = n - 1}, x \in S}

------------------------------------------------------------------------------
(* hex crate: FromHex for Vec<u8>, ToHex (lowercase), used at lines 98, 115 *)

HexChars == <<"0", "1", "2", "3", "4", "5", "6", "7", "8", "9",
              "a", "b", "c", "d", "e", "f">>
UpperHexChars == <<"0", "1", "2", "3", "4", "5", "6", "7", "8", "9",
                   "A", "B", "C", "D", "E", "F">>

\* the value of a hex digit of either case, -1 for any other character
HexVal(c) ==
    IF \E i \in 1..16 : HexChars[i] = c
    THEN (CHOOSE i \in 1..16 : HexChars[i] = c) - 1
    ELSE IF \E i \in 1..16 : UpperHexChars[i] = c
    THEN (CHOOSE i \in 1..16 : UpperHexChars[i] = c) - 1
    ELSE -1

FromHex(s) ==
    IF Len(s) % 2 # 0 THEN Err("OddLength")
    ELSE IF \E i \in 1..Len(s) : HexVal(s[i]) = -1 THEN Err("InvalidHexCharacter")
    ELSE Ok([i \in 1..(Len(s) \div 2) |-> HexVal(s[2 * i - 1]) * 16 + HexVal(s[2 * i])])

\* the upper-case encoding (hex::encode_upper)
ToHexUpper(bytes) ==
    [i \in 1..(2 * Len(bytes)) |->
        IF i % 2 = 1 THEN UpperHexChars[(bytes[(i + 1) \div 2] \div 16) + 1]
        ELSE UpperHexChars[(bytes[i \div 2] % 16) + 1]]

ToHex(bytes) ==
    [i \in 1..(2 * Len(bytes)) |->
        IF i % 2 = 1 THEN HexChars[(bytes[(i + 1) \div 2] \div 16) + 1]
        ELSE HexChars[(bytes[i \div 2] % 16) + 1]]

------------------------------------------------------------------------------
(* mod rgb8_fromhex_opt, lines 90-118 *)

RGB8(r, g, b) == [r |-> r, g |-> g, b |-> b]

\* hex::deserialize asks the deserializer for a string: any other JSON type,
\* null included, is an error before the length is looked at
hex_deserialize(j) ==
    IF j.t # "str" THEN Err("invalid type: expected a hex encoded string")
    ELSE FromHex(j.s)

\* lines 99-107 with the length test weakened to "at least 3"
rgb8_of_bytes_anylen(s) ==
    IF ~s.ok THEN s
    ELSE IF Len(s.v) < 3 THEN Err("expected color hex string")
    ELSE Ok(Some(RGB8(s.v[1], s.v[2], s.v[3])))

\* lines 99-107: s is the result of line 98
rgb8_of_bytes(s) ==
    IF ~s.ok THEN s
    ELSE IF Len(s.v) # 3 THEN Err("expected color hex string")
    ELSE Ok(Some(RGB8(s.v[1], s.v[2], s.v[3])))

rgb8_fromhex_opt_deserialize(j) == rgb8_of_bytes(hex_deserialize(j))

rgb8_fromhex_opt_serialize(v) ==
    IF IsSome(v)
    THEN JStr(ToHex(<<Unwrap(v).r, Unwrap(v).g, Unwrap(v).b>>))
    ELSE JNull

------------------------------------------------------------------------------
(* Text: a String is the sequence of its characters *)

UpperLetters == <<"A", "B", "C", "D", "E", "F", "G", "H", "I", "J", "K", "L", "M",
                  "N", "O", "P", "Q", "R", "S", "T", "U", "V", "W", "X", "Y", "Z">>
LowerLetters == <<"a", "b", "c", "d", "e", "f", "g", "h", "i", "j", "k", "l", "m",
                  "n", "o", "p", "q", "r", "s", "t", "u", "v", "w", "x", "y", "z">>

IsUpper(c) == \E i \in 1..26 : UpperLetters[i] = c
ToLower(c) == IF IsUpper(c) THEN LowerLetters[CHOOSE i \in 1..26 : UpperLetters[i] = c] ELSE c

\* concatenation of a sequence of sequences
RECURSIVE Flatten(_)
Flatten(ss) == IF ss = <<>> THEN <<>> ELSE Head(ss) \o Flatten(Tail(ss))

------------------------------------------------------------------------------
(* url crate: Url::parse and Url::as_str, behind the Url fields of lines 24-41. *)
(* A Url is held as its serialization, which is what its equality compares.   *)
(* The parser is given as its results on the texts the model feeds it.         *)

UrlHttpA == <<"h", "t", "t", "p", ":", "/", "/", "a", "/">>
UrlHttpAUnnormalised == <<"H", "T", "T", "P", ":", "/", "/", "a">>
UrlIpfsB == <<"i", "p", "f", "s", ":", "/", "/", "b">>
NotAUrl == <<"a", ".", "p", "n", "g">>

Url(serialization) == [serialization |-> serialization]

Url_parse(s) ==
    IF s = UrlHttpA THEN Ok(Url(UrlHttpA))
    ELSE IF s = UrlHttpAUnnormalised THEN Ok(Url(UrlHttpA))
    ELSE IF s = UrlIpfsB THEN Ok(Url(UrlIpfsB))
    ELSE Err("relative URL without a base")

Url_deserialize(j) ==
    IF j.t = "str" THEN Url_parse(j.s)
    ELSE Err("invalid type: expected a string representing an URL")

Url_serialize(u) == JStr(u.serialization)

Option_Url_serialize(opt) ==
    IF IsSome(opt) THEN Url_serialize(Unwrap(opt)) ELSE JNull

------------------------------------------------------------------------------
(* String and u64 *)

String_deserialize(j) ==
    IF j.t = "str" THEN Ok(j.s) ELSE Err("invalid type: expected a string")

String_serialize(s) == JStr(s)

\* u64::MAX and -i64::MIN as decimal digits
U64MaxDigits == <<1, 8, 4, 4, 6, 7, 4, 4, 0, 7, 3, 7, 0, 9, 5, 5, 1, 6, 1, 5>>
I64MinDigits == <<9, 2, 2, 3, 3, 7, 2, 0, 3, 6, 8, 5, 4, 7, 7, 5, 8, 0, 8>>

\* a <= b for two decimal numerals without leading zeros
LeqDigits(a, b) ==
    \/ Len(a) < Len(b)
    \/ /\ Len(a) = Len(b)
       /\ \/ a = b
          \/ \E i \in 1..Len(a) :
                /\ a[i] < b[i]
                /\ \A k \in 1..(i - 1) : a[k] = b[k]

\* serde_json's reading of a number token: an integer that fits u64 is U64, a
\* negative one that fits i64 is I64, everything else (a fraction, an
\* exponent, an integer out of range, -0) is F64
ParseNumber(j) ==
    IF j.frac THEN "F64"
    ELSE IF ~j.neg THEN (IF LeqDigits(j.digits, U64MaxDigits) THEN "U64" ELSE "F64")
    ELSE IF j.digits = <<0>> THEN "F64"
    ELSE IF LeqDigits(j.digits, I64MinDigits) THEN "I64" ELSE "F64"

\* a reading that keeps the magnitude of a negative integer
u64_deserialize_wrapping(j) ==
    IF j.t # "num" THEN Err("invalid type: expected u64")
    ELSE IF ParseNumber(j) = "F64" THEN Err("invalid type: floating point, expected u64")
    ELSE Ok(j.digits)

u64_deserialize(j) ==
    IF j.t # "num" THEN Err("invalid type: expected u64")
    ELSE IF ParseNumber(j) = "U64" THEN Ok(j.digits)
    ELSE IF ParseNumber(j) = "I64" THEN Err("invalid value: negative integer, expected u64")
    ELSE Err("invalid type: floating point, expected u64")

u64_serialize(n) == JNum(FALSE, n, FALSE)

------------------------------------------------------------------------------
(* Option<T>, and a struct's fields read from a JSON object or array *)

\* Option<T>::deserialize of j, r being T::deserialize of j: null is None
Option_deserialize(j, r) ==
    IF j.t = "null" THEN Ok(None)
    ELSE IF r.ok THEN Ok(Some(r.v))
    ELSE r

\* The derived visitor of a struct reads an object (visit_map, by key; a key
\* that names no field is skipped) or an array (visit_seq, by position;
\* an element past the last field is an error).
StructFields(j, names) ==
    IF j.t = "obj" THEN Ok([o |-> j.o, positional |-> FALSE])
    ELSE IF j.t = "arr"
    THEN IF Len(j.a) > Len(names) THEN Err("invalid length")
         ELSE Ok([o |-> [k \in {names[i] : i \in 1..Len(j.a)} |->
                            j.a[CHOOSE i \in 1..Len(j.a) : names[i] = k]],
                  positional |-> TRUE])
    ELSE Err("invalid type: expected a struct")

\* An untagged enum's struct variant gets no visit_seq: it reads an object only.
VariantFields(j) ==
    IF j.t = "obj" THEN Ok([o |-> j.o, positional |-> FALSE])
    ELSE Err("invalid type: expected a struct variant")

\* the variant with deny_unknown_fields
StructFieldsDenyUnknown(j, names) ==
    IF j.t = "obj" /\ \E k \in DOMAIN j.o : \A i \in 1..Len(names) : names[i] # k
    THEN Err("unknown field")
    ELSE StructFields(j, names)

\* the value under key k, or Absent
Field(f, k) == IF Has(f.o, k) THEN f.o[k] ELSE Absent

\* a field without attributes, r being its type's reading of Field(f, k)
Required(f, k, r) ==
    IF Has(f.o, k) THEN r ELSE Err("missing field")

\* an Option field without attributes, r being the inner type's reading of
\* Field(f, k): a missing key is None, a missing element is an error
Optional(f, k, r) ==
    IF Has(f.o, k) THEN Option_deserialize(f.o[k], r)
    ELSE IF f.positional THEN Err("invalid length")
    ELSE Ok(None)

\* a field with #[serde(default)], r being the reading of Field(f, k)
Defaulted(f, k, r, dflt) ==
    IF Has(f.o, k) THEN r ELSE Ok(dflt)

------------------------------------------------------------------------------
(* enum DisplayType, lines 71-87 *)

DisplayType == {"Number", "BoostPercentage", "BoostNumber", "Date"}

VariantName(d) ==
    CASE d = "Number" -> <<"N", "u", "m", "b", "e", "r">>
      [] d = "BoostPercentage" -> <<"B", "o", "o", "s", "t", "P", "e", "r", "c", "e", "n", "t", "a", "g", "e">>
      [] d = "BoostNumber" -> <<"B", "o", "o", "s", "t", "N", "u", "m", "b", "e", "r">>
      [] d = "Date" -> <<"D", "a", "t", "e">>

\* serde's rename_all = "snake_case" of a variant name: an underscore before
\* every upper-case letter but the first, every letter lower-cased
SnakeCase(name) ==
    Flatten([i \in 1..Len(name) |->
        IF i > 1 /\ IsUpper(name[i]) THEN <<"_", ToLower(name[i])>>
        ELSE <<ToLower(name[i])>>])

\* the token without rename_all
DisplayTypeTokenVerbatim(d) == VariantName(d)

DisplayTypeToken(d) == SnakeCase(VariantName(d))

\* a unit variant is read from its token, or from the object {token: null}
DisplayType_deserialize(j) ==
    IF j.t = "str"
    THEN IF \E d \in DisplayType : DisplayTypeToken(d) = j.s
         THEN Ok(CHOOSE d \in DisplayType : DisplayTypeToken(d) = j.s)
         ELSE Err("unknown variant")
    ELSE IF j.t = "obj"
    THEN IF \E d \in DisplayType : DOMAIN j.o = {DisplayTypeToken(d)}
                                     /\ j.o[DisplayTypeToken(d)].t = "null"
         THEN Ok(CHOOSE d \in DisplayType : DOMAIN j.o = {DisplayTypeToken(d)})
         ELSE Err("invalid value: expected a unit variant")
    ELSE Err("invalid type: expected string or map")

DisplayType_serialize(d) == JStr(DisplayTypeToken(d))

Option_DisplayType_serialize(opt) ==
    IF IsSome(opt) THEN DisplayType_serialize(Unwrap(opt)) ELSE JNull

------------------------------------------------------------------------------
(* enum AttributeEntry, lines 45-69: untagged, variants tried in order *)

AttrString(trait_type, v) ==
    [variant |-> "String", trait_type |-> trait_type, value |-> v]
AttrNumber(trait_type, v, display_type) ==
    [variant |-> "Number", trait_type |-> trait_type, value |-> v,
     display_type |-> display_type]

\* the first error among the results, or Ok of all the values
AllOk(rs) ==
    IF \E i \in DOMAIN rs : ~rs[i].ok
    THEN rs[CHOOSE i \in DOMAIN rs : ~rs[i].ok /\ \A k \in 1..(i - 1) : rs[k].ok]
    ELSE Ok([i \in DOMAIN rs |-> rs[i].v])

AttrStringOf(r) == IF r.ok THEN Ok(AttrString(r.v[1], r.v[2])) ELSE r
AttrNumberOf(r) == IF r.ok THEN Ok(AttrNumber(r.v[1], r.v[2], r.v[3])) ELSE r

\* lines 54-59
AttributeEntry_String_fields(f) ==
    AttrStringOf(AllOk(
        <<Required(f, "trait_type", String_deserialize(Field(f, "trait_type"))),
          Required(f, "value", String_deserialize(Field(f, "value")))>>))

AttributeEntry_String_deserialize(j) ==
    IF VariantFields(j).ok THEN AttributeEntry_String_fields(VariantFields(j).v)
    ELSE VariantFields(j)

\* lines 61-68
AttributeEntry_Number_fields(f) ==
    AttrNumberOf(AllOk(
        <<Required(f, "trait_type", String_deserialize(Field(f, "trait_type"))),
          Required(f, "value", u64_deserialize(Field(f, "value"))),
          Optional(f, "display_type",
                   DisplayType_deserialize(Field(f, "display_type")))>>))

AttributeEntry_Number_deserialize(j) ==
    IF VariantFields(j).ok THEN AttributeEntry_Number_fields(VariantFields(j).v)
    ELSE VariantFields(j)

\* the result of the first variant that reads the element
FirstOk(s, n) ==
    IF s.ok THEN s
    ELSE IF n.ok THEN n
    ELSE Err("data did not match any variant of untagged enum AttributeEntry")

\* lines 45-52, were the Number variant never tried
AttributeEntry_deserialize_StringOnly(j) ==
    FirstOk(AttributeEntry_String_deserialize(j), AttributeEntry_String_deserialize(j))

\* lines 45-52
AttributeEntry_deserialize(j) ==
    FirstOk(AttributeEntry_String_deserialize(j), AttributeEntry_Number_deserialize(j))

AttributeEntry_serialize(a) ==
    IF a.variant = "String"
    THEN JObj([k \in {"trait_type", "value"} |->
                 IF k = "trait_type" THEN String_serialize(a.trait_type)
                 ELSE String_serialize(a.value)])
    ELSE JObj([k \in {"trait_type", "value", "display_type"} |->
                 IF k = "trait_type" THEN String_serialize(a.trait_type)
                 ELSE IF k = "value" THEN u64_serialize(a.value)
                 ELSE Option_DisplayType_serialize(a.display_type)])

Vec_AttributeEntry_deserialize(j) ==
    IF j.t # "arr" THEN Err("invalid type: expected a sequence")
    ELSE AllOk([i \in 1..Len(j.a) |-> AttributeEntry_deserialize(j.a[i])])

Vec_AttributeEntry_serialize(as) ==
    JArr([i \in 1..Len(as) |-> AttributeEntry_serialize(as[i])])

------------------------------------------------------------------------------
(* struct Metadata, lines 16-42 *)

MetadataFieldNames ==
    <<"image", "external_url", "description", "name", "attributes",
      "background_color", "animation_url", "youtube_url">>

MetadataOf(image, external_url, description, name, attributes, background_color, animation_url, youtube_url) ==
    [image |-> image, external_url |-> external_url, description |-> description,
     name |-> name, attributes |-> attributes, background_color |-> background_color,
     animation_url |-> animation_url, youtube_url |-> youtube_url]

MetadataOfValues(r) ==
    IF r.ok
    THEN Ok(MetadataOf(r.v[1], r.v[2], r.v[3], r.v[4], r.v[5], r.v[6], r.v[7], r.v[8]))
    ELSE r

\* line 24
image_deserialize(f) == Required(f, "image", Url_deserialize(Field(f, "image")))
\* line 26
external_url_deserialize(f) ==
    Optional(f, "external_url", Url_deserialize(Field(f, "external_url")))
\* line 28
description_deserialize(f) ==
    Required(f, "description", String_deserialize(Field(f, "description")))
\* line 30, were the field given a default
name_deserialize_defaulted(f) ==
    Defaulted(f, "name", String_deserialize(Field(f, "name")), <<>>)
\* line 30
name_deserialize(f) == Required(f, "name", String_deserialize(Field(f, "name")))
\* lines 32-33, without the default
attributes_deserialize_required(f) ==
    Required(f, "attributes", Vec_AttributeEntry_deserialize(Field(f, "attributes")))
\* lines 32-33
attributes_deserialize(f) ==
    Defaulted(f, "attributes", Vec_AttributeEntry_deserialize(Field(f, "attributes")),
              <<>>)
\* lines 36-37
background_color_deserialize(f) ==
    Defaulted(f, "background_color",
              rgb8_fromhex_opt_deserialize(Field(f, "background_color")), None)
\* line 39
animation_url_deserialize(f) ==
    Optional(f, "animation_url", Url_deserialize(Field(f, "animation_url")))
\* line 41
youtube_url_deserialize(f) ==
    Optional(f, "youtube_url", Url_deserialize(Field(f, "youtube_url")))

\* line 20, with deny_unknown_fields
MetadataFields_DenyUnknown(j) == StructFieldsDenyUnknown(j, MetadataFieldNames)

\* line 20
MetadataFields(j) == StructFields(j, MetadataFieldNames)

\* lines 22-42: every field is read, and the first error is the result
Metadata_fields(f) ==
    MetadataOfValues(
        AllOk(<<image_deserialize(f), external_url_deserialize(f),
                description_deserialize(f), name_deserialize(f),
                attributes_deserialize(f), background_color_deserialize(f),
                animation_url_deserialize(f), youtube_url_deserialize(f)>>))

Metadata_deserialize(j) ==
    IF MetadataFields(j).ok THEN Metadata_fields(MetadataFields(j).v)
    ELSE MetadataFields(j)

\* the derived Serialize writes every field, in declaration order
Metadata_serialize(m) ==
    JObj([k \in {MetadataFieldNames[i] : i \in 1..8} |->
        CASE k = "image" -> Url_serialize(m.image)
          [] k = "external_url" -> Option_Url_serialize(m.external_url)
          [] k = "description" -> String_serialize(m.description)
          [] k = "name" -> String_serialize(m.name)
          [] k = "attributes" -> Vec_AttributeEntry_serialize(m.attributes)
          [] k = "background_color" -> rgb8_fromhex_opt_serialize(m.background_color)
          [] k = "animation_url" -> Option_Url_serialize(m.animation_url)
          [] k = "youtube_url" -> Option_Url_serialize(m.youtube_url)])

------------------------------------------------------------------------------
(* The inputs: the JSON values and the Metadata values a caller may hold *)

WithoutAbsent(f) == [k \in {x \in DOMAIN f : f[x].t # "absent"} |-> f[k]]

TextDescription == <<"d", "e", "s", "c">>
TextName == <<"R", "o", "c", "k", "e", "t", "e", "e", "r", " ", "X">>
TextCore == <<"C", "o", "r", "e">>
TextVortex == <<"V", "o", "r", "t", "e", "x">>
TextLevel == <<"L", "e", "v", "e", "l">>
TextColor == <<"f", "2", "f", "2", "f", "2">>

NumFive == JNum(FALSE, <<5>>, FALSE)
NumZero == JNum(FALSE, <<0>>, FALSE)
NumMinusOne == JNum(TRUE, <<1>>, FALSE)
NumMinusZero == JNum(TRUE, <<0>>, FALSE)
NumOneAndAHalf == JNum(FALSE, <<1>>, TRUE)
NumU64Max == JNum(FALSE, U64MaxDigits, FALSE)
NumU64MaxPlusOne == JNum(FALSE, <<1, 8, 4, 4, 6, 7, 4, 4, 0, 7, 3, 7, 0, 9, 5, 5, 1, 6, 1, 6>>, FALSE)
NumBelowI64Min == JNum(TRUE, <<9, 2, 2, 3, 3, 7, 2, 0, 3, 6, 8, 5, 4, 7, 7, 5, 8, 0, 9>>, FALSE)

WireObject(image, external_url, description, name, attributes, background_color, animation_url, youtube_url, unknown) ==
    JObj(WithoutAbsent(
        [k \in {MetadataFieldNames[i] : i \in 1..8} \cup {"unknown"} |->
            CASE k = "image" -> image
              [] k = "external_url" -> external_url
              [] k = "description" -> description
              [] k = "name" -> name
              [] k = "attributes" -> attributes
              [] k = "background_color" -> background_color
              [] k = "animation_url" -> animation_url
              [] k = "youtube_url" -> youtube_url
              [] k = "unknown" -> unknown]))

\* the three required keys, and the given attributes and background_color
BaseObject(attributes, background_color) ==
    WireObject(JStr(UrlHttpA), Absent, JStr(TextDescription), JStr(TextName),
               attributes, background_color, Absent, Absent, Absent)

ElementObject(trait_type, v, display_type) ==
    JObj(WithoutAbsent(
        [k \in {"trait_type", "value", "display_type"} |->
            CASE k = "trait_type" -> trait_type
              [] k = "value" -> v
              [] k = "display_type" -> display_type]))

\* objects whose top-level keys are each absent, well-typed or ill-typed
FieldWires ==
    {WireObject(image, external_url, description, name, attributes,
                background_color, animation_url, youtube_url, unknown) :
        image \in {Absent, JStr(UrlHttpA), JStr(UrlHttpAUnnormalised),
                   JStr(NotAUrl), NumFive},
        external_url \in {Absent, JNull, JStr(UrlIpfsB), JStr(NotAUrl)},
        description \in {Absent, JStr(TextDescription), NumFive},
        name \in {Absent, JStr(TextName), JBool(TRUE)},
        attributes \in {Absent, JArr(<<>>), JNull,
                        JArr(<<ElementObject(JStr(TextCore), JStr(TextVortex), Absent)>>)},
        background_color \in {Absent, JStr(TextColor), JNull, NumFive},
        animation_url \in {Absent, JStr(UrlHttpA)},
        youtube_url \in {Absent, NumFive},
        unknown \in {Absent, JNull, JArr(<<NumMinusOne>>)}}

\* values that are no object: an array is read by position
PositionalWires ==
    {JNull, JStr(TextName),
     JArr(<<JStr(UrlHttpA), JNull, JStr(TextDescription), JStr(TextName),
            JArr(<<>>), JStr(TextColor), JNull, JStr(UrlIpfsB)>>),
     JArr(<<JStr(UrlHttpA), JNull, JStr(TextDescription), JStr(TextName)>>),
     JArr(<<JStr(UrlHttpA), JNull, JStr(TextDescription), JStr(TextName),
            JArr(<<>>), JStr(TextColor), JNull, JNull, JNull>>)}

ElementTraitTypes == {Absent, JStr(TextCore), NumFive}
ElementValues ==
    {Absent, JNull, JBool(TRUE), JStr(TextVortex), JStr(<<"5">>),
     NumFive, NumZero, NumMinusOne, NumMinusZero, NumOneAndAHalf,
     NumU64Max, NumU64MaxPlusOne, NumBelowI64Min}
ElementDisplayTypes ==
    {Absent, JNull, NumFive,
     JStr(<<"n", "u", "m", "b", "e", "r">>), JStr(<<"b", "o", "o", "s", "t", "_", "p", "e", "r", "c", "e", "n", "t", "a", "g", "e">>), JStr(<<"b", "o", "o", "s", "t", "_", "n", "u", "m", "b", "e", "r">>), JStr(<<"d", "a", "t", "e">>),
     JStr(<<"N", "u", "m", "b", "e", "r">>), JStr(<<"p", "e", "r", "c", "e", "n", "t">>),
     JObj([k \in {<<"d", "a", "t", "e">>} |-> JNull])}

\* every attribute element shape, alone in the array
ElementWires ==
    {BaseObject(JArr(<<ElementObject(trait_type, v, display_type)>>), Absent) :
        trait_type \in ElementTraitTypes, v \in ElementValues,
        display_type \in ElementDisplayTypes}
    \cup {BaseObject(JArr(<<e>>), Absent) :
            e \in {JNull, JStr(TextVortex), JArr(<<JStr(TextCore), JStr(TextVortex)>>),
                   JArr(<<JStr(TextCore), NumFive, JNull>>)}}

SequenceElements ==
    {ElementObject(JStr(TextCore), JStr(TextVortex), Absent),
     ElementObject(JStr(TextLevel), NumFive, JStr(<<"n", "u", "m", "b", "e", "r">>)),
     ElementObject(JStr(TextLevel), NumU64Max, Absent),
     ElementObject(JStr(TextLevel), NumMinusOne, Absent),
     ElementObject(JStr(TextCore), JStr(TextCore), JStr(<<"p", "e", "r", "c", "e", "n", "t">>))}

\* arrays of up to MaxAttrs elements
SequenceWires ==
    {BaseObject(JArr(a), JStr(TextColor)) : a \in SeqsUpTo(SequenceElements, MaxAttrs)}

HexAlphabet == {"f", "2", "A", "g"}
LongColorTexts ==
    {<<"f", "2", "f", "2", "f", "2", "f", "2">>, <<"F", "2", "F", "2", "F", "2", "F", "2">>, <<"f", "2", "f", "2", "f", "2", "f">>, <<"#", "f", "2", "f", "2", "f", "2">>}

\* every background_color text of up to MaxHexLen characters, and some longer
ColorWires ==
    {BaseObject(Absent, JStr(s)) :
        s \in SeqsUpTo(HexAlphabet, MaxHexLen) \cup LongColorTexts}

Wires == FieldWires \cup PositionalWires \cup ElementWires \cup SequenceWires \cup ColorWires

ValueAttributes ==
    {AttrString(TextCore, TextVortex), AttrString(TextCore, <<"5">>),
     AttrNumber(TextLevel, <<5>>, None), AttrNumber(TextLevel, U64MaxDigits, None)}
    \cup {AttrNumber(TextLevel, <<0>>, Some(d)) : d \in DisplayType}

Channels == {0, 1, 10, 15, 16, 171, 242, 255}

\* Metadata values built by direct field assignment
BuiltValues ==
    {MetadataOf(image, external_url, description, TextName, attributes,
                background_color, animation_url, youtube_url) :
        image \in {Url(UrlHttpA), Url(UrlIpfsB)},
        external_url \in {None, Some(Url(UrlIpfsB))},
        description \in {<<>>, TextDescription},
        attributes \in SeqsUpTo(ValueAttributes, MaxAttrs),
        background_color \in {None, Some(RGB8(242, 242, 242))},
        animation_url \in {None, Some(Url(UrlHttpA))},
        youtube_url \in {None, Some(Url(UrlHttpA))}}
    \cup
    {MetadataOf(Url(UrlHttpA), None, TextDescription, TextName, <<>>,
                Some(RGB8(r, g, b)), None, None) :
        r \in Channels, g \in Channels, b \in Channels}

------------------------------------------------------------------------------
(* The codec in use: decode a wire value, encode the value held, decode the *)
(* encoding again                                                           *)

Init ==
    /\ decoded = None
    /\ encoded = None
    /\ redecoded = None
    /\ \/ /\ pc = "wire"
          /\ wire \in Wires
          /\ value = None
       \/ /\ pc = "value"
          /\ wire = JNull
          /\ value \in {Some(m) : m \in BuiltValues}

\* serde_json::from_value::<Metadata>(wire)
Decode ==
    /\ pc = "wire"
    /\ decoded' = Some(Metadata_deserialize(wire))
    /\ value' = IF Unwrap(decoded').ok THEN Some(Unwrap(decoded').v) ELSE None
    /\ pc' = "decoded"
    /\ UNCHANGED <<wire, encoded, redecoded>>

\* serde_json::to_value(&value)
Encode ==
    /\ pc \in {"value", "decoded"}
    /\ IsSome(value)
    /\ encoded' = Some(Metadata_serialize(Unwrap(value)))
    /\ pc' = "encoded"
    /\ UNCHANGED <<wire, value, decoded, redecoded>>

\* serde_json::from_value::<Metadata>(encoded)
Redecode ==
    /\ pc = "encoded"
    /\ redecoded' = Some(Metadata_deserialize(Unwrap(encoded)))
    /\ pc' = "redecoded"
    /\ UNCHANGED <<wire, value, decoded, encoded>>

Next == Decode \/ Encode \/ Redecode

Spec == Init /\ [][Next]_vars

------------------------------------------------------------------------------
(* What the properties below speak of *)

DecodeDone == IsSome(decoded)
EncodeDone == IsSome(encoded)
WireIsObject == wire.t = "obj"
WireHasArray == WireIsObject /\ Has(wire.o, "attributes") /\ wire.o["attributes"].t = "arr"
WireElements == wire.o["attributes"].a

\* e is an object whose key k holds a value of JSON type t
KeyIs(e, k, t) == e.t = "obj" /\ Has(e.o, k) /\ e.o[k].t = t
KeyAbsent(e, k) == e.t = "obj" /\ ~Has(e.o, k)

\* every key but attributes and background_color is as in the plain valid object
RestIsBase ==
    /\ WireIsObject
    /\ \E a \in {Absent, IF Has(wire.o, "attributes") THEN wire.o["attributes"] ELSE Absent} :
       \E c \in {Absent, IF Has(wire.o, "background_color")
                         THEN wire.o["background_color"] ELSE Absent} :
          wire = BaseObject(a, c)

\* the background_color key is absent or holds "f2f2f2"
ColorIsPlain ==
    KeyAbsent(wire, "background_color") \/ wire.o["background_color"] = JStr(TextColor)

\* the wire tokens of DisplayType, as the documentation of the format lists them
TokenOf(d) ==
    CASE d = "Number" -> <<"n", "u", "m", "b", "e", "r">>
      [] d = "BoostPercentage" -> <<"b", "o", "o", "s", "t", "_", "p", "e", "r", "c", "e", "n", "t", "a", "g", "e">>
      [] d = "BoostNumber" -> <<"b", "o", "o", "s", "t", "_", "n", "u", "m", "b", "e", "r">>
      [] d = "Date" -> <<"d", "a", "t", "e">>
IsToken(s) == \E d \in DisplayType : TokenOf(d) = s
VariantOfToken(s) == CHOOSE d \in DisplayType : TokenOf(d) = s

FitsU64(n) == ~n.neg /\ ~n.frac /\ LeqDigits(n.digits, U64MaxDigits)

ValueIsNumber(e) == KeyIs(e, "value", "num")
ValueIsString(e) == KeyIs(e, "value", "str")
NeitherShape(e) ==
    \/ ~KeyIs(e, "trait_type", "str")
    \/ ~(ValueIsNumber(e) \/ ValueIsString(e))
DisplayTypePlain(e) ==
    \/ KeyAbsent(e, "display_type")
    \/ KeyIs(e, "display_type", "null")
    \/ KeyIs(e, "display_type", "str") /\ IsToken(e.o["display_type"].s)
ExpectedDisplayType(e) ==
    IF KeyIs(e, "display_type", "str") THEN Some(VariantOfToken(e.o["display_type"].s))
    ELSE None
StringShaped(e) == KeyIs(e, "trait_type", "str") /\ ValueIsString(e)
NumberShaped(e) ==
    /\ KeyIs(e, "trait_type", "str")
    /\ ValueIsNumber(e)
    /\ FitsU64(e.o["value"])
    /\ DisplayTypePlain(e)

HexDigits ==
    {"0", "1", "2", "3", "4", "5", "6", "7", "8", "9",
     "a", "b", "c", "d", "e", "f", "A", "B", "C", "D", "E", "F"}
LowerHexDigits ==
    {"0", "1", "2", "3", "4", "5", "6", "7", "8", "9", "a", "b", "c", "d", "e", "f"}
\* s is hex text of exactly three bytes
IsColorText(s) == Len(s) = 6 /\ \A i \in 1..6 : s[i] \in HexDigits
ByteAt(s, i) == 16 * HexVal(s[2 * i - 1]) + HexVal(s[2 * i])

OptionalKeys == {"external_url", "background_color", "animation_url", "youtube_url"}
SchemaKeys == {MetadataFieldNames[i] : i \in 1..8}
WithoutUnknownKeys(j) == JObj([k \in DOMAIN j.o \cap SchemaKeys |-> j.o[k]])

------------------------------------------------------------------------------
(* C1: decoding the encoding of a Metadata value succeeds and yields a value *)
(* equal to it, whether the value was built directly or came from decoding a *)
(* wire object.                                                              *)
RoundTrip ==
    pc = "redecoded" => Unwrap(redecoded) = Ok(Unwrap(value))

(* C2: encoding omits the key of every absent optional field                 *)
(* (external_url, background_color, animation_url, youtube_url, and the      *)
(* display_type of a Number attribute), and a String attribute never has a   *)
(* display_type key.                                                         *)
AbsentFieldsOmitted ==
    EncodeDone =>
        /\ \A k \in OptionalKeys :
              Unwrap(value)[k] = None => ~Has(Unwrap(encoded).o, k)
        /\ \A i \in 1..Len(Unwrap(value).attributes) :
              \/ /\ Unwrap(value).attributes[i].variant = "Number"
                 /\ IsSome(Unwrap(value).attributes[i].display_type)
              \/ ~Has(Unwrap(encoded).o["attributes"].a[i].o, "display_type")

(* C3: an attributes element whose value is a JSON number decodes to the     *)
(* Number variant (its display_type decoded when present), one whose value   *)
(* is a JSON string decodes to the String variant, and an element of neither *)
(* shape (value missing or of another type, trait_type missing) fails the    *)
(* decode; a number is never read as String nor a string as Number.          *)
AttributeDiscrimination ==
    (DecodeDone /\ WireHasArray) =>
        /\ (\E i \in 1..Len(WireElements) : NeitherShape(WireElements[i]))
              => ~Unwrap(decoded).ok
        /\ Unwrap(decoded).ok =>
              /\ Len(Unwrap(decoded).v.attributes) = Len(WireElements)
              /\ \A i \in 1..Len(WireElements) :
                    /\ ValueIsNumber(WireElements[i]) =>
                          /\ Unwrap(decoded).v.attributes[i].variant = "Number"
                          /\ Unwrap(decoded).v.attributes[i].value
                                = WireElements[i].o["value"].digits
                          /\ DisplayTypePlain(WireElements[i]) =>
                                Unwrap(decoded).v.attributes[i].display_type
                                   = ExpectedDisplayType(WireElements[i])
                    /\ ValueIsString(WireElements[i]) =>
                          Unwrap(decoded).v.attributes[i]
                             = AttrString(WireElements[i].o["trait_type"].s,
                                          WireElements[i].o["value"].s)
        /\ ( /\ RestIsBase /\ ColorIsPlain
             /\ \A i \in 1..Len(WireElements) :
                   StringShaped(WireElements[i]) \/ NumberShaped(WireElements[i]) )
              => Unwrap(decoded).ok

AttributeDiscriminationWitness ==
    /\ pc = "decoded"
    /\ WireHasArray
    /\ Unwrap(decoded).ok
    /\ \E i, k \in 1..Len(WireElements) :
          /\ ValueIsString(WireElements[i])
          /\ Unwrap(decoded).v.attributes[i].variant = "String"
          /\ ValueIsNumber(WireElements[k])
          /\ KeyIs(WireElements[k], "display_type", "str")
          /\ Unwrap(decoded).v.attributes[k].variant = "Number"

(* C4: a background_color string decodes to Some(RGB) exactly when it is hex *)
(* text (either case) of exactly 3 bytes, which become r, g, b in order; any *)
(* other string (another byte count, an odd digit count, a non-hex           *)
(* character) fails the decode; an absent key decodes to None and does not   *)
(* fail the decode.                                                          *)
ColorDecode ==
    (DecodeDone /\ WireIsObject) =>
        /\ KeyIs(wire, "background_color", "str") =>
              /\ ~IsColorText(wire.o["background_color"].s) => ~Unwrap(decoded).ok
              /\ Unwrap(decoded).ok =>
                    Unwrap(decoded).v.background_color
                       = Some(RGB8(ByteAt(wire.o["background_color"].s, 1),
                                   ByteAt(wire.o["background_color"].s, 2),
                                   ByteAt(wire.o["background_color"].s, 3)))
              /\ (RestIsBase /\ ~Has(wire.o, "attributes")
                    /\ IsColorText(wire.o["background_color"].s))
                    => Unwrap(decoded).ok
              /\ (RestIsBase /\ wire.o["background_color"].s = TextColor
                    /\ ~Has(wire.o, "attributes"))
                    => Unwrap(decoded).v.background_color = Some(RGB8(242, 242, 242))
        /\ KeyAbsent(wire, "background_color") =>
              /\ Unwrap(decoded).ok => Unwrap(decoded).v.background_color = None
              /\ (RestIsBase /\ ~Has(wire.o, "attributes")) => Unwrap(decoded).ok

ColorDecodeWitness ==
    /\ pc = "decoded"
    /\ KeyIs(wire, "background_color", "str")
    /\ wire.o["background_color"].s = <<"A", "f", "2", "A", "f", "f">>
    /\ Unwrap(decoded).ok
    /\ Unwrap(decoded).v.background_color = Some(RGB8(175, 42, 255))

(* C5: a present RGB value encodes as a string of exactly 6 lower-case hex   *)
(* characters without prefix: r, g, b in order, each padded to 2 digits.     *)
ColorEncode ==
    (EncodeDone /\ IsSome(Unwrap(value).background_color)) =>
        /\ KeyIs(Unwrap(encoded), "background_color", "str")
        /\ Len(Unwrap(encoded).o["background_color"].s) = 6
        /\ \A i \in 1..6 : Unwrap(encoded).o["background_color"].s[i] \in LowerHexDigits
        /\ ByteAt(Unwrap(encoded).o["background_color"].s, 1)
              = Unwrap(Unwrap(value).background_color).r
        /\ ByteAt(Unwrap(encoded).o["background_color"].s, 2)
              = Unwrap(Unwrap(value).background_color).g
        /\ ByteAt(Unwrap(encoded).o["background_color"].s, 3)
              = Unwrap(Unwrap(value).background_color).b
        /\ Unwrap(value).background_color = Some(RGB8(242, 242, 242))
              => Unwrap(encoded).o["background_color"].s = TextColor

ColorEncodeWitness ==
    /\ pc = "encoded"
    /\ Unwrap(value).background_color = Some(RGB8(10, 1, 255))
    /\ Unwrap(encoded).o["background_color"]
          = JStr(<<"0", "a", "0", "1", "f", "f">>)

(* C6: an attributes element whose value is a JSON number that does not fit  *)
(* u64 (negative, fractional, above 2^64-1) fails the decode of the whole    *)
(* Metadata.                                                                 *)
NumberOutOfRangeFails ==
    (DecodeDone /\ WireHasArray) =>
        ( (\E i \in 1..Len(WireElements) :
              ValueIsNumber(WireElements[i]) /\ ~FitsU64(WireElements[i].o["value"]))
          => ~Unwrap(decoded).ok )

NumberOutOfRangeWitness ==
    /\ pc = "decoded"
    /\ WireHasArray
    /\ Len(WireElements) = 2
    /\ StringShaped(WireElements[1])
    /\ KeyIs(WireElements[2], "trait_type", "str")
    /\ WireElements[2].o["value"] = NumMinusOne
    /\ ~Unwrap(decoded).ok

(* C7: the tokens number, boost_percentage, boost_number, date decode to     *)
(* Number, BoostPercentage, BoostNumber, Date and encode back to the same    *)
(* tokens; a numeric attribute whose display_type is any other string fails  *)
(* the decode.                                                               *)
DisplayTypeClosed ==
    /\ (DecodeDone /\ WireHasArray) =>
          \A i \in 1..Len(WireElements) :
             (ValueIsNumber(WireElements[i]) /\ KeyIs(WireElements[i], "display_type", "str"))
             => IF IsToken(WireElements[i].o["display_type"].s)
                THEN /\ Unwrap(decoded).ok =>
                           Unwrap(decoded).v.attributes[i].display_type
                              = Some(VariantOfToken(WireElements[i].o["display_type"].s))
                     /\ (RestIsBase /\ ColorIsPlain /\ Len(WireElements) = 1
                            /\ NumberShaped(WireElements[i])) => Unwrap(decoded).ok
                ELSE ~Unwrap(decoded).ok
    /\ EncodeDone =>
          \A i \in 1..Len(Unwrap(value).attributes) :
             ( /\ Unwrap(value).attributes[i].variant = "Number"
               /\ IsSome(Unwrap(value).attributes[i].display_type) )
             => Unwrap(encoded).o["attributes"].a[i].o["display_type"]
                   = JStr(TokenOf(Unwrap(Unwrap(value).attributes[i].display_type)))

DisplayTypeClosedWitness ==
    /\ pc = "encoded"
    /\ IsSome(decoded)
    /\ WireHasArray
    /\ Len(WireElements) = 1
    /\ KeyIs(WireElements[1], "display_type", "str")
    /\ WireElements[1].o["display_type"].s = TokenOf("BoostPercentage")
    /\ ValueIsNumber(WireElements[1])
    /\ Unwrap(value).attributes[1].display_type = Some("BoostPercentage")
    /\ Unwrap(encoded).o["attributes"].a[1].o["display_type"]
          = JStr(TokenOf("BoostPercentage"))

(* C8: an object that lacks image, description or name, or that has a field  *)
(* of the schema present with the wrong structural type (an image that is no *)
(* parseable URL included), fails the decode; a decode that succeeds yields  *)
(* a value with image, description and name populated from the object.       *)
IllTyped(k) ==
    /\ Has(wire.o, k)
    /\ CASE k \in {"description", "name", "background_color"} -> wire.o[k].t # "str"
         [] k = "image" -> wire.o[k].t # "str" \/ wire.o[k].s = NotAUrl
         [] k \in {"external_url", "animation_url", "youtube_url"} ->
               \/ wire.o[k].t \notin {"str", "null"}
               \/ wire.o[k].t = "str" /\ wire.o[k].s = NotAUrl
         [] k = "attributes" -> wire.o[k].t # "arr"

RequiredFieldsAllOrNothing ==
    (DecodeDone /\ WireIsObject) =>
        /\ (\E k \in {"image", "description", "name"} : ~Has(wire.o, k))
              => ~Unwrap(decoded).ok /\ value = None
        /\ (\E k \in SchemaKeys : IllTyped(k)) => ~Unwrap(decoded).ok /\ value = None
        /\ Unwrap(decoded).ok =>
              /\ KeyIs(wire, "image", "str")
              /\ Unwrap(decoded).v.image.serialization
                    = IF wire.o["image"].s = UrlHttpAUnnormalised THEN UrlHttpA
                      ELSE wire.o["image"].s
              /\ KeyIs(wire, "description", "str")
              /\ Unwrap(decoded).v.description = wire.o["description"].s
              /\ KeyIs(wire, "name", "str")
              /\ Unwrap(decoded).v.name = wire.o["name"].s

RequiredFieldsWitness ==
    /\ pc = "decoded"
    /\ WireIsObject
    /\ ~Has(wire.o, "name")
    /\ Has(wire.o, "image") /\ Has(wire.o, "description")
    /\ \A k \in SchemaKeys : ~IllTyped(k)
    /\ ~Unwrap(decoded).ok

(* C9: an otherwise valid object without the attributes key decodes with     *)
(* attributes empty; a present attributes array decodes to a sequence of the *)
(* same length and order; a Metadata with empty attributes encodes an        *)
(* attributes key holding the empty array.                                   *)
AttributesDefaultAndOrder ==
    /\ (DecodeDone /\ WireIsObject /\ ~Has(wire.o, "attributes")) =>
          /\ Unwrap(decoded).ok => Unwrap(decoded).v.attributes = <<>>
          /\ RestIsBase /\ ~Has(wire.o, "background_color") => Unwrap(decoded).ok
    /\ (DecodeDone /\ WireHasArray /\ Unwrap(decoded).ok) =>
          /\ Len(Unwrap(decoded).v.attributes) = Len(WireElements)
          /\ \A i \in 1..Len(WireElements) :
                /\ Unwrap(decoded).v.attributes[i].trait_type
                      = WireElements[i].o["trait_type"].s
                /\ Unwrap(decoded).v.attributes[i].value
                      = IF ValueIsString(WireElements[i])
                        THEN WireElements[i].o["value"].s
                        ELSE WireElements[i].o["value"].digits
    /\ (EncodeDone /\ Unwrap(value).attributes = <<>>) =>
          /\ Has(Unwrap(encoded).o, "attributes")
          /\ Unwrap(encoded).o["attributes"] = JArr(<<>>)

AttributesDefaultWitness ==
    /\ pc = "encoded"
    /\ DecodeDone
    /\ WireIsObject
    /\ ~Has(wire.o, "attributes")
    /\ Unwrap(decoded).ok
    /\ Unwrap(value).attributes = <<>>
    /\ Unwrap(encoded).o["attributes"] = JArr(<<>>)

(* C10: an object that decodes to m still decodes, and to the same m, with a *)
(* key outside the schema added at the top level, whatever its value.        *)
UnknownKeysIgnored ==
    (DecodeDone /\ WireIsObject /\ Has(wire.o, "unknown")) =>
        ( Metadata_deserialize(WithoutUnknownKeys(wire)).ok
          => Unwrap(decoded) = Metadata_deserialize(WithoutUnknownKeys(wire)) )

UnknownKeysWitness ==
    /\ pc = "decoded"
    /\ WireIsObject
    /\ Has(wire.o, "unknown")
    /\ wire.o["unknown"].t = "arr"
    /\ Unwrap(decoded).ok
    /\ Unwrap(decoded) = Metadata_deserialize(WithoutUnknownKeys(wire))

====
